---- MODULE Spec2Model ----
(***************************************************************************)
(* Model of EnergyTrendAnalysis.py: the acquisition stage (page scan,      *)
(* quarter gate, retried download) and the transformation stage (category  *)
(* derivation, aggregation, column renaming, unpivot, CSV write).          *)
(*                                                                         *)
(* Text is modelled as a sequence of one-character strings, so that the    *)
(* regular expressions and string methods of the source are computed       *)
(* character by character.                                                 *)
(***************************************************************************)
EXTENDS Integers, Sequences, FiniteSets, TLC

\* ------------------------------------------------------------------ text

Digits == {"0", "1", "2", "3", "4", "5", "6", "7", "8", "9"}

\* Python's \s on the characters the model uses.
Whitespace == {" ", "\n", "\t"}

DigitVal(c) ==
    CASE c = "0" -> 0 [] c = "1" -> 1 [] c = "2" -> 2 [] c = "3" -> 3
      [] c = "4" -> 4 [] c = "5" -> 5 [] c = "6" -> 6 [] c = "7" -> 7
      [] c = "8" -> 8 [] c = "9" -> 9

\* int() of a string of decimal digits.
RECURSIVE ToInt(_)
ToInt(s) ==
    IF Len(s) = 0 THEN 0
    ELSE 10 * ToInt(SubSeq(s, 1, Len(s) - 1)) + DigitVal(s[Len(s)])

\* s[i..] starts with the literal lit (i is 1-based).
StartsWithAt(s, i, lit) ==
    /\ i + Len(lit) - 1 <= Len(s)
    /\ \A k \in 1..Len(lit) : s[i + k - 1] = lit[k]

AllDigits(s, i, j) == \A k \in i..j : k <= Len(s) /\ s[k] \in Digits

\* str.strip(): drop leading and trailing whitespace.
RECURSIVE LStrip(_)
LStrip(s) ==
    IF Len(s) > 0 /\ s[1] \in Whitespace THEN LStrip(Tail(s)) ELSE s

RECURSIVE RStrip(_)
RStrip(s) ==
    IF Len(s) > 0 /\ s[Len(s)] \in Whitespace
    THEN RStrip(SubSeq(s, 1, Len(s) - 1)) ELSE s

Strip(s) == LStrip(RStrip(s))

\* str.replace(a, b) for a single character a and a string b.
RECURSIVE ReplaceChar(_, _, _)
ReplaceChar(s, a, b) ==
    IF Len(s) = 0 THEN <<>>
    ELSE (IF s[1] = a THEN b ELSE <<s[1]>>) \o ReplaceChar(Tail(s), a, b)

\* Literals of the source.
SP == <<" ">>
QuarterWord == <<"q", "u", "a", "r", "t", "e", "r">>
SpQuarter == SP \o QuarterWord
Suffixes == {<<"s", "t">>, <<"n", "d">>, <<"r", "d">>, <<"t", "h">>}

\* ------------------------------------------------------ quarter_to_tuple

ValueError == [raised |-> TRUE, value |-> <<>>]
Returned(v) == [raised |-> FALSE, value |-> v]

\* The ordinal and ' quarter' after a quarter number of n digits that
\* starts at position 6: (st|nd|rd|th) quarter.
OrdinalQuarterAt(s, n) ==
    /\ \E suf \in Suffixes : StartsWithAt(s, 6 + n, suf)
    /\ StartsWithAt(s, 8 + n, SpQuarter)

\* re.match(r'(\d{4}) (\d{1,2})(st|nd|rd|th) quarter', s): anchored at the
\* start only; \d{1,2} is greedy and backtracks to one digit.
QuarterMatchLen(s) ==
    IF ~(AllDigits(s, 1, 4) /\ StartsWithAt(s, 5, SP)) THEN 0
    ELSE IF AllDigits(s, 6, 7) /\ OrdinalQuarterAt(s, 2) THEN 2
    ELSE IF AllDigits(s, 6, 6) /\ OrdinalQuarterAt(s, 1) THEN 1
    ELSE 0

\* A variant that reads a single-digit quarter number and requires the
\* label to end at 'quarter'.
quarter_to_tuple_strict(s) ==
    IF AllDigits(s, 1, 4) /\ StartsWithAt(s, 5, SP) /\ AllDigits(s, 6, 6)
       /\ OrdinalQuarterAt(s, 1) /\ Len(s) = 16
    THEN Returned(<<ToInt(SubSeq(s, 1, 4)), ToInt(SubSeq(s, 6, 6))>>)
    ELSE ValueError

quarter_to_tuple(s) ==
    LET n == QuarterMatchLen(s) IN
    IF n > 0
    THEN Returned(<<ToInt(SubSeq(s, 1, 4)), ToInt(SubSeq(s, 6, 5 + n))>>)
    ELSE ValueError

\* A comparison that also accepts equal pairs.
TupleGE(a, b) == a[1] > b[1] \/ (a[1] = b[1] /\ a[2] >= b[2])

\* Python's tuple order on (year, quarter) pairs: a > b.
TupleGT(a, b) == a[1] > b[1] \/ (a[1] = b[1] /\ a[2] > b[2])

\* ------------------------------------------- reading the sheet's header

\* df.columns.str.strip().str.replace('\n', ' ', regex=False)
NormalizeHeader(c) == ReplaceChar(Strip(c), "\n", SP)

\* re.match(r'^\d{4} \d{1,2}(st|nd|rd|th) quarter', col)
IsQuarterColumn(c) == QuarterMatchLen(c) > 0

Positions(s, ch) == {i \in 1..Len(s) : s[i] = ch}
MinOf(S) == CHOOSE x \in S : \A y \in S : x <= y
MaxOf(S) == CHOOSE x \in S : \A y \in S : x >= y

\* Start of the run of whitespace that ends just before position i.
RECURSIVE WsStart(_, _)
WsStart(s, i) ==
    IF i > 1 /\ s[i - 1] \in Whitespace THEN WsStart(s, i - 1) ELSE i

\* re.sub(r'\s*\[.*\]', '', x) on a header without newlines: the leftmost
\* match starts at the whitespace before the first '[' and, '.*' being
\* greedy, ends at the last ']'.
StripAnnotation(x) ==
    LET opens == Positions(x, "[")
        closes == Positions(x, "]")
    IN  IF opens = {} \/ closes = {} \/ MaxOf(closes) < MinOf(opens) THEN x
        ELSE SubSeq(x, 1, WsStart(x, MinOf(opens)) - 1)
                 \o SubSeq(x, MaxOf(closes) + 1, Len(x))

QuarterKey(x) == quarter_to_tuple(StripAnnotation(x))

\* max(quarter_columns, key=...): the first column with the greatest key.
RECURSIVE MaxByKey(_)
MaxByKey(cols) ==
    IF Len(cols) = 1 THEN cols[1]
    ELSE LET best == MaxByKey(SubSeq(cols, 1, Len(cols) - 1))
             x == cols[Len(cols)]
         IN  IF TupleGT(QuarterKey(x).value, QuarterKey(best).value)
             THEN x ELSE best

GateRaised == [raised |-> TRUE, is_newer |-> FALSE, latest |-> <<>>]
GateValue(n, l) == [raised |-> FALSE, is_newer |-> n, latest |-> l]

\* Lines 116-143 of check_excel_for_latest_quarter, up to the os.remove:
\* what the inspection of the downloaded sheet computes, or that it raises.
InspectSheet(sh, lq) ==
    IF ~sh.has_sheet THEN GateRaised     \* pd.read_excel raises
    ELSE
    LET cols == [i \in 1..Len(sh.columns) |-> NormalizeHeader(sh.columns[i])]
        quarter_columns == SelectSeq(cols, IsQuarterColumn)
    IN  IF quarter_columns = <<>> THEN GateRaised   \* max() of no columns
        ELSE IF \E i \in 1..Len(quarter_columns) :
                    QuarterKey(quarter_columns[i]).raised
        THEN GateRaised
        ELSE
        LET latest_quarter_in_file == MaxByKey(quarter_columns)
            a == quarter_to_tuple(latest_quarter_in_file)
            b == quarter_to_tuple(Strip(lq))
        IN  IF a.raised \/ b.raised THEN GateRaised
            ELSE IF TupleGT(a.value, b.value)
            THEN GateValue(TRUE, latest_quarter_in_file)
            ELSE GateValue(FALSE, lq)

\* ------------------------------------- transformation: text literals

Column1 == <<"C", "o", "l", "u", "m", "n", "1">>

S_Category ==
    <<"C", "a", "t", "e", "g", "o", "r", "y">>

S_Sub_Category ==
    <<"S", "u", "b", "_", "C", "a", "t", "e", "g", "o", "r", "y">>

S_id ==
    <<"i", "d">>

S_Quarter ==
    <<"Q", "u", "a", "r", "t", "e", "r">>

S_Quantity ==
    <<"Q", "u", "a", "n", "t", "i", "t", "y">>

S_FileName ==
    <<"F", "i", "l", "e", "N", "a", "m", "e">>

S_ProcessedDate ==
    <<"P", "r", "o", "c", "e", "s", "s", "e", "d", "D", "a", "t", "e">>

IndigenousProduction ==
    <<"I", "n", "d", "i", "g", "e", "n", "o", "u", "s", " ", "p", "r", "o",
      "d", "u", "c", "t", "i", "o", "n">>

S_Imports ==
    <<"I", "m", "p", "o", "r", "t", "s">>

S_Exports ==
    <<"E", "x", "p", "o", "r", "t", "s">>

S_CrudeOil ==
    <<"C", "r", "u", "d", "e", " ", "o", "i", "l">>

S_NGLs ==
    <<"N", "G", "L", "s">>

S_Feedstocks ==
    <<"F", "e", "e", "d", "s", "t", "o", "c", "k", "s">>

S_CrudeOilAndNGLs ==
    <<"C", "r", "u", "d", "e", " ", "O", "i", "l", " ", "&", " ", "N", "G",
      "L", "s">>

S_NoteOpen ==
    <<"[", "n", "o", "t", "e">>

CellIndigenousNote ==
    <<"I", "n", "d", "i", "g", "e", "n", "o", "u", "s", " ", "p", "r", "o",
      "d", "u", "c", "t", "i", "o", "n", " ", "[", "n", "o", "t", "e", " ",
      "2", "]">>

CellNGLsNote ==
    <<" ", "N", "G", "L", "s", " ", "[", "n", "o", "t", "e", " ", "1", "2",
      "]", " ">>


\* ----------------------------------- transformation: tables and cells

\* A DataFrame: its column names in order, and its rows, each a sequence of
\* cells in column order.
DataFrame(cols, rs) == [columns |-> cols, rows |-> rs]

ColIndex(df, name) == CHOOSE i \in DOMAIN df.columns : df.columns[i] = name

\* Spark's trim(): drop leading and trailing spaces.
RECURSIVE TrimSpaces(_)
TrimSpaces(s) ==
    IF Len(s) > 0 /\ s[1] = " " THEN TrimSpaces(Tail(s))
    ELSE IF Len(s) > 0 /\ s[Len(s)] = " "
    THEN TrimSpaces(SubSeq(s, 1, Len(s) - 1))
    ELSE s

\* First position from i on that holds no character of the class.
RECURSIVE SkipClass(_, _, _)
SkipClass(s, i, class) ==
    IF i <= Len(s) /\ s[i] \in class THEN SkipClass(s, i + 1, class) ELSE i

\* Length of the match of \s*\[note\s*\d+\] at position i, 0 if none.
NoteMatchLen(s, i) ==
    LET open == SkipClass(s, i, Whitespace)
        num == SkipClass(s, open + Len(S_NoteOpen), Whitespace)
        close == SkipClass(s, num, Digits)
    IN  IF /\ StartsWithAt(s, open, S_NoteOpen)
           /\ close > num
           /\ close <= Len(s) /\ s[close] = "]"
        THEN close - i + 1 ELSE 0

\* regexp_replace(col, r"\s*\[note\s*\d+\]", "")
RECURSIVE RemoveNotesFrom(_, _)
RemoveNotesFrom(s, i) ==
    IF i > Len(s) THEN <<>>
    ELSE IF NoteMatchLen(s, i) > 0
    THEN RemoveNotesFrom(s, i + NoteMatchLen(s, i))
    ELSE <<s[i]>> \o RemoveNotesFrom(s, i + 1)

RemoveNotes(s) == RemoveNotesFrom(s, 1)

\* split(col, '_')[0]
BeforeUnderscore(s) ==
    LET us == Positions(s, "_")
    IN  IF us = {} THEN s ELSE SubSeq(s, 1, MinOf(us) - 1)

\* concat_ws('_', lit(prefix), col)
ConcatWs(prefix, c) == prefix \o <<"_">> \o c

\* Lines 256-269: the sheet as a Spark DataFrame with the row id appended
\* (0, 1, 2, ... in one partition), spaces in column names replaced by
\* underscores, and Column1 renamed to Category.
LoadSparkDf(sheet_df) ==
    LET cols == sheet_df.columns \o <<S_id>>
        under(c) == ReplaceChar(c, " ", <<"_">>)
        named(c) == IF under(c) = Column1 THEN S_Category ELSE under(c)
    IN  DataFrame([i \in DOMAIN cols |-> named(cols[i])],
                  [i \in DOMAIN sheet_df.rows |-> sheet_df.rows[i] \o <<i - 1>>])

\* Lines 281-285: Sub_Category from the row id.
SubCategoryOf(id, category) ==
    IF id \in {1, 2, 3} THEN ConcatWs(IndigenousProduction, category)
    ELSE IF id \in {5, 6} THEN ConcatWs(S_Imports, category)
    ELSE IF id \in {8, 9} THEN ConcatWs(S_Exports, category)
    ELSE category

\* Lines 276-290: clean Category, add Sub_Category, and overwrite Category
\* where Sub_Category differs from it.
DeriveCategories(df) ==
    LET c == ColIndex(df, S_Category)
        k == ColIndex(df, S_id)
        derive(row) ==
            LET cleaned == RemoveNotes(TrimSpaces(row[c]))
                sub == SubCategoryOf(row[k], cleaned)
            IN  [row EXCEPT ![c] = IF sub # cleaned THEN BeforeUnderscore(sub)
                                   ELSE cleaned] \o <<sub>>
    IN  DataFrame(df.columns \o <<S_Sub_Category>>, 
                  [i \in DOMAIN df.rows |-> derive(df.rows[i])])

\* A filter that keeps the Feedstocks row in the group.
IsIndigenousDetail_all(category, sub) ==
    category = IndigenousProduction /\ sub # IndigenousProduction

\* Lines 294-298: the rows summed into the synthetic row.
IsIndigenousDetail(category, sub) ==
    /\ category = IndigenousProduction
    /\ sub # IndigenousProduction
    /\ sub # ConcatWs(IndigenousProduction, S_Feedstocks)

RECURSIVE SumCells(_, _)
SumCells(rs, j) ==
    IF Len(rs) = 0 THEN 0
    ELSE rs[Len(rs)][j] + SumCells(SubSeq(rs, 1, Len(rs) - 1), j)

\* Lines 302-304: groupBy("Category") over the filtered rows and sum of every
\* column but Category and Sub_Category (the id column included); a group
\* exists only if a row passed the filter. The rows are laid out in the
\* column order of df, as unionByName does.
SummedRows(df) ==
    LET c == ColIndex(df, S_Category)
        s == ColIndex(df, S_Sub_Category)
        detail(row) == IsIndigenousDetail(row[c], row[s])
        indigenous == SelectSeq(df.rows, detail)
    IN  IF indigenous = <<>> THEN <<>>
        ELSE << [j \in DOMAIN df.columns |->
                    IF j = c THEN IndigenousProduction
                    ELSE IF j = s
                    THEN ConcatWs(IndigenousProduction, S_CrudeOilAndNGLs)
                    ELSE SumCells(indigenous, j)] >>

\* Lines 308-310: the union with the summed row, without the Crude oil and
\* NGLs rows.
Aggregate(df) ==
    LET s == ColIndex(df, S_Sub_Category)
        kept(row) ==
            /\ row[s] # ConcatWs(IndigenousProduction, S_CrudeOil)
            /\ row[s] # ConcatWs(IndigenousProduction, S_NGLs)
    IN  DataFrame(df.columns, SelectSeq(df.rows \o SummedRows(df), kept))

\* ------------------------------------------ transformation: rename_columns

\* str.replace('_\n', ' ')
RECURSIVE ReplaceUnderscoreNewline(_)
ReplaceUnderscoreNewline(s) ==
    IF Len(s) = 0 THEN <<>>
    ELSE IF Len(s) >= 2 /\ s[1] = "_" /\ s[2] = "\n"
    THEN SP \o ReplaceUnderscoreNewline(SubSeq(s, 3, Len(s)))
    ELSE <<s[1]>> \o ReplaceUnderscoreNewline(Tail(s))

\* str.split(' '): every space separates, so two spaces give an empty part.
RECURSIVE SplitOnSpace(_)
SplitOnSpace(s) ==
    LET sps == Positions(s, " ")
    IN  IF sps = {} THEN <<s>>
        ELSE <<SubSeq(s, 1, MinOf(sps) - 1)>>
                 \o SplitOnSpace(SubSeq(s, MinOf(sps) + 1, Len(s)))

\* str.lower() on one character.
LowerChar(c) ==
    CASE c = "A" -> "a"
      [] c = "B" -> "b"
      [] c = "C" -> "c"
      [] c = "D" -> "d"
      [] c = "E" -> "e"
      [] c = "F" -> "f"
      [] c = "G" -> "g"
      [] c = "H" -> "h"
      [] c = "I" -> "i"
      [] c = "J" -> "j"
      [] c = "K" -> "k"
      [] c = "L" -> "l"
      [] c = "M" -> "m"
      [] c = "N" -> "n"
      [] c = "O" -> "o"
      [] c = "P" -> "p"
      [] c = "Q" -> "q"
      [] c = "R" -> "r"
      [] c = "S" -> "s"
      [] c = "T" -> "t"
      [] c = "U" -> "u"
      [] c = "V" -> "v"
      [] c = "W" -> "w"
      [] c = "X" -> "x"
      [] c = "Y" -> "y"
      [] c = "Z" -> "z"
      [] OTHER -> c

\* sub in s
Contains(s, sub) == \E i \in 1..(Len(s) - Len(sub) + 1) : StartsWithAt(s, i, sub)

\* str.isdigit()
IsDigitStr(s) == Len(s) > 0 /\ \A i \in DOMAIN s : s[i] \in Digits

\* A renaming that does not check that the year is a number.
NewColumnName_any_year(col_name) ==
    LET col_name_cleaned ==
            Strip(ReplaceChar(ReplaceChar(ReplaceUnderscoreNewline(col_name),
                                          "\n", SP), "_", SP))
        parts == SplitOnSpace(col_name_cleaned)
    IN  IF Len(parts) >= 2
        THEN LET year == Strip(parts[1])
                 quarter == [i \in DOMAIN Strip(parts[2]) |->
                                LowerChar(Strip(parts[2])[i])]
                 quarter_num ==
                     IF Contains(quarter, <<"1", "s", "t">>) THEN <<"0", "1">>
                     ELSE IF Contains(quarter, <<"2", "n", "d">>) THEN <<"0", "2">>
                     ELSE IF \/ Contains(quarter, <<"3", "r", "d">>)
                             \/ Contains(quarter, <<"3", "n", "d">>)
                     THEN <<"0", "3">>
                     ELSE IF Contains(quarter, <<"4", "t", "h">>) THEN <<"0", "4">>
                     ELSE <<>>
             IN  IF quarter_num # <<>>
                 THEN year \o quarter_num
                 ELSE col_name
        ELSE col_name

\* Lines 324-357: the name rename_columns gives the column col_name.
NewColumnName(col_name) ==
    LET col_name_cleaned ==
            Strip(ReplaceChar(ReplaceChar(ReplaceUnderscoreNewline(col_name),
                                          "\n", SP), "_", SP))
        parts == SplitOnSpace(col_name_cleaned)
    IN  IF Len(parts) >= 2
        THEN LET year == Strip(parts[1])
                 quarter == [i \in DOMAIN Strip(parts[2]) |->
                                LowerChar(Strip(parts[2])[i])]
                 quarter_num ==
                     IF Contains(quarter, <<"1", "s", "t">>) THEN <<"0", "1">>
                     ELSE IF Contains(quarter, <<"2", "n", "d">>) THEN <<"0", "2">>
                     ELSE IF \/ Contains(quarter, <<"3", "r", "d">>)
                             \/ Contains(quarter, <<"3", "n", "d">>)
                     THEN <<"0", "3">>
                     ELSE IF Contains(quarter, <<"4", "t", "h">>) THEN <<"0", "4">>
                     ELSE <<>>
             IN  IF IsDigitStr(year) /\ quarter_num # <<>>
                 THEN year \o quarter_num
                 ELSE col_name
        ELSE col_name

\* df.withColumnRenamed(old, new): every column called old is renamed.
WithColumnRenamed(cols, old, new) ==
    [i \in DOMAIN cols |-> IF cols[i] = old THEN new ELSE cols[i]]

\* Lines 360-361: the renames are applied one after the other, in the order
\* of the original columns.
RECURSIVE ApplyRenames(_, _, _)
ApplyRenames(cols, olds, i) ==
    IF i > Len(olds) THEN cols
    ELSE ApplyRenames(WithColumnRenamed(cols, olds[i], NewColumnName(olds[i])),
                      olds, i + 1)

rename_columns(df) == DataFrame(ApplyRenames(df.columns, df.columns, 1), df.rows)

\* -------------------------------------------- transformation: unpivot

\* A selection that takes every column but Category and Sub_Category.
QuarterColumnsOf_rest(df) ==
    SelectSeq([i \in DOMAIN df.columns |-> i],
              LAMBDA i : df.columns[i] \notin {S_Category, S_Sub_Category})

\* Line 374: the positions of the columns whose name is all digits.
QuarterColumnsOf(df) ==
    SelectSeq([i \in DOMAIN df.columns |-> i],
              LAMBDA i : IsDigitStr(df.columns[i]))

\* stack() and the select by name need at least one quarter column and
\* names that denote one column each.
CanUnpivot(df) ==
    /\ QuarterColumnsOf(df) # <<>>
    /\ \A i, j \in DOMAIN df.columns :
           (i # j /\ df.columns[i] = df.columns[j]) =>
               /\ ~IsDigitStr(df.columns[i])
               /\ df.columns[i] \notin {S_Category, S_Sub_Category}

RECURSIVE Flatten(_)
Flatten(ss) == IF Len(ss) = 0 THEN <<>> ELSE Head(ss) \o Flatten(Tail(ss))

\* Lines 378-387: one row (Category, Sub_Category, Quarter, Quantity,
\* FileName, ProcessedDate) per row and quarter column.
Unpivot(df, file, today) ==
    LET c == ColIndex(df, S_Category)
        s == ColIndex(df, S_Sub_Category)
        qs == QuarterColumnsOf(df)
        stack(row) ==
            [n \in DOMAIN qs |->
                <<row[c], row[s], df.columns[qs[n]], row[qs[n]], file, today>>]
    IN  DataFrame(<<S_Category, S_Sub_Category, S_Quarter, S_Quantity,
                    S_FileName, S_ProcessedDate>>,
                  Flatten([i \in DOMAIN df.rows |-> stack(df.rows[i])]))

\* ------------------------------------------------------------ the model

VARIABLES
    \* the label under test and its parts, and what quarter_to_tuple
    \* returned for it
    q_parts, q_str, q_out,
    \* acquisition: the environment
    page, sheet, config_latest_quarter,
    \* acquisition: the run of search_for_energy_trend
    pc, run, latest_quarter, should_download, exc, durable_calls,
    gate_downloaded,
    \* acquisition: the retry wrapper around download_excel_file
    dl_ctx, retries, current_delay, sleeps, calls, outcomes,
    \* acquisition: files
    local_tmp, dbfs,
    \* transformation: the notebook cell reached, the sheet read, and the
    \* DataFrames and the CSV file of the notebook
    t_pc, sheet_df, spark_df, final_df, df_renamed, finalDF, csv_file

parseVars == <<q_parts, q_str, q_out>>
envVars == <<page, sheet, config_latest_quarter>>
runVars == <<pc, run, latest_quarter, should_download, exc, durable_calls,
             gate_downloaded>>
retryVars == <<dl_ctx, retries, current_delay, sleeps, calls, outcomes>>
fileVars == <<local_tmp, dbfs>>
acqVars == <<envVars, runVars, retryVars, fileVars>>
reshapeVars == <<t_pc, sheet_df, spark_df, final_df, df_renamed, finalDF,
                 csv_file>>
vars == <<parseVars, acqVars, reshapeVars>>

\* ------------------------------------------------- labels of the model

Y1984 == <<"1", "9", "8", "4">>
Y2023 == <<"2", "0", "2", "3">>
Y2024 == <<"2", "0", "2", "4">>
Note3 == <<" ", "[", "n", "o", "t", "e", " ", "3", "]">>

Label(y, n, suf) == y \o SP \o n \o suf \o SpQuarter

\* config["latest_quarter"]
L1984q1 == Label(Y1984, <<"1">>, <<"s", "t">>)
L2023q1 == Label(Y2023, <<"1">>, <<"s", "t">>)
L2024q2 == Label(Y2024, <<"2">>, <<"n", "d">>)
L2024q2Note == L2024q2 \o Note3
\* a header cell broken over two lines
L2024q3Newline == Y2024 \o <<"\n">> \o <<"3">> \o <<"r", "d">> \o SpQuarter
InvalidQuarter == <<"i", "n", "v", "a", "l", "i", "d", " ">> \o QuarterWord

\* ---------------------------------------------- acquisition: constants

\* @retry_request(max_retries=3, delay=5, backoff=2)
max_retries == 3
delay == 5
backoff == 2

\* Number of runs of the notebook that the model follows.
MaxRuns == 2
\* Largest number of header cells of the 'Quarter' sheet.
MaxCols == 2

\* What one call of the undecorated download_excel_file can do:
\*   ok               the file is written to /tmp and copied to DBFS
\*   connection_error requests.get raises ConnectionError or Timeout
\*   http_error       raise_for_status raises HTTPError (4xx or 5xx)
\*   write_error      open() or file.write raises OSError
\*   copy_error       dbutils.fs.cp raises after the /tmp file is written
Outcomes == {"ok", "connection_error", "http_error", "write_error",
             "copy_error"}

\* requests.exceptions: ConnectionError, Timeout and HTTPError all derive
\* from RequestException.
IsRequestException_narrow(o) == o = "connection_error"

IsRequestException(o) == o \in {"connection_error", "http_error"}

\* Attempts that reach requests.get (all of them: it is the first call).
Requests(os) == Len(os)

NoPage == [fetch |-> "ok", status |-> 200, matches |-> FALSE, link |-> FALSE]
NoSheet == [has_sheet |-> FALSE, columns |-> <<>>]

AcqIdle ==
    /\ page = NoPage /\ sheet = NoSheet /\ config_latest_quarter = L1984q1
    /\ pc = "off" /\ run = 0 /\ latest_quarter = L1984q1
    /\ should_download = FALSE /\ exc = "none" /\ durable_calls = 0
    /\ gate_downloaded = FALSE
    /\ dl_ctx = "none" /\ retries = 0 /\ current_delay = delay
    /\ sleeps = <<>> /\ calls = 0 /\ outcomes = <<>>
    /\ local_tmp = FALSE /\ dbfs = {}

NoFrame == DataFrame(<<>>, <<>>)

ReshapeIdle ==
    /\ t_pc = "off" /\ sheet_df = NoFrame /\ spark_df = NoFrame
    /\ final_df = NoFrame /\ df_renamed = NoFrame /\ finalDF = NoFrame
    /\ csv_file = NoFrame

\* ------------------------------------- specification: quarter_to_tuple

Pending == [raised |-> FALSE, value |-> <<>>]

PartPrefixes == {<<>>, SP}
PartYears == {[s |-> Y2024, v |-> 2024], [s |-> Y1984, v |-> 1984],
              [s |-> <<"2", "0", "2">>, v |-> 202],
              [s |-> <<"2", "0", "2", "4", "5">>, v |-> 20245]}
PartSeps == {SP, <<"_">>, <<>>}
PartNums == {[s |-> <<"1">>, v |-> 1], [s |-> <<"4">>, v |-> 4],
             [s |-> <<"0">>, v |-> 0], [s |-> <<"5">>, v |-> 5],
             [s |-> <<"1", "3">>, v |-> 13], [s |-> <<>>, v |-> 0],
             [s |-> <<"1", "2", "3">>, v |-> 123]}
PartSufs == Suffixes \cup {<<"x", "x">>}
PartWords == {SpQuarter, QuarterWord,
              <<" ", "q", "u", "a", "r", "t", "e", "x">>,
              <<" ", "Q", "u", "a", "r", "t", "e", "r">>}
PartTails == {<<>>, Note3, <<"s">>, <<"\n">>}

PartsToStr(p) ==
    p.prefix \o p.year.s \o p.sep \o p.num.s \o p.suf \o p.word \o p.tail

InitParse ==
    /\ q_parts \in [prefix : PartPrefixes, year : PartYears, sep : PartSeps,
                    num : PartNums, suf : PartSufs, word : PartWords,
                    tail : PartTails]
    /\ q_str = PartsToStr(q_parts)
    /\ q_out = Pending
    /\ AcqIdle
    /\ ReshapeIdle

\* One call quarter_to_tuple(q_str).
ParseQuarter ==
    /\ q_out = Pending
    /\ q_out' = quarter_to_tuple(q_str)
    /\ UNCHANGED <<q_parts, q_str, acqVars, reshapeVars>>

NextParse == ParseQuarter

SpecParse == InitParse /\ [][NextParse]_vars

\* The label is '<4 digits> <1 or 2 digits><st|nd|rd|th> quarter' followed
\* by any text.
PartsLenient(p) ==
    /\ p.prefix = <<>> /\ Len(p.year.s) = 4 /\ p.sep = SP
    /\ Len(p.num.s) \in {1, 2} /\ p.suf \in Suffixes /\ p.word = SpQuarter

\* The label is exactly '<YYYY> <N>(st|nd|rd|th) quarter' with N in 1..4.
PartsExact(p) ==
    /\ PartsLenient(p) /\ p.num.v \in 1..4 /\ Len(p.num.s) = 1
    /\ p.tail = <<>>

\* C9 (as written): quarter_to_tuple returns (Y, N) for every string of the
\* exact form '<YYYY> <N>(st|nd|rd|th) quarter' with N in 1..4, raises
\* ValueError for every other string, and every tuple it returns has its
\* quarter in 1..4.
C9_ExactFormOnly ==
    q_out # Pending =>
        /\ PartsExact(q_parts) =>
               q_out = Returned(<<q_parts.year.v, q_parts.num.v>>)
        /\ ~PartsExact(q_parts) => q_out = ValueError
        /\ ~q_out.raised => q_out.value[2] \in 1..4

\* C9 (amended): quarter_to_tuple returns (Y, N) for every string that
\* starts with '<YYYY> <N>(st|nd|rd|th) quarter', N being one or two decimal
\* digits, whatever follows 'quarter'; it raises ValueError for every other
\* string; the quarter it returns is in 0..99, and is in 1..4 for every
\* label of the exact form.
C9_PrefixForm ==
    q_out # Pending =>
        /\ PartsLenient(q_parts) =>
               q_out = Returned(<<q_parts.year.v, q_parts.num.v>>)
        /\ ~PartsLenient(q_parts) => q_out = ValueError
        /\ ~q_out.raised => q_out.value[2] \in 0..99
        /\ PartsExact(q_parts) => q_out.value[2] \in 1..4

\* A label with annotation and a two-digit quarter has been parsed.
C9_Witness ==
    /\ q_out # Pending /\ ~q_out.raised
    /\ q_parts.tail = Note3 /\ q_parts.num.v = 13

\* ---------------------------------------- specification: acquisition

ParseIdle == q_parts = <<>> /\ q_str = <<>> /\ q_out = Pending

ColumnNames == {Column1, L2023q1, L2024q2, L2024q2Note, L2024q3Newline}

\* pandas keeps header names distinct, so a header repeats no name.
Headers ==
    {h \in UNION {[1..k -> ColumnNames] : k \in 0..MaxCols} :
        \A i, j \in DOMAIN h : i # j => h[i] # h[j]}

Sheets == {NoSheet} \cup {[has_sheet |-> TRUE, columns |-> h] : h \in Headers}

Pages ==
    {[fetch |-> "error", status |-> 200, matches |-> TRUE, link |-> TRUE],
     [fetch |-> "ok", status |-> 404, matches |-> TRUE, link |-> TRUE],
     [fetch |-> "ok", status |-> 200, matches |-> FALSE, link |-> TRUE],
     [fetch |-> "ok", status |-> 200, matches |-> TRUE, link |-> FALSE],
     [fetch |-> "ok", status |-> 200, matches |-> TRUE, link |-> TRUE]}

LastKnowns == {L1984q1, L2024q2, SP \o L2024q2, InvalidQuarter}

Init ==
    /\ ParseIdle
    /\ ReshapeIdle
    /\ page \in Pages /\ sheet \in Sheets
    /\ config_latest_quarter \in LastKnowns
    /\ pc = "idle" /\ run = 0
    /\ latest_quarter = config_latest_quarter
    /\ should_download = FALSE /\ exc = "none" /\ durable_calls = 0
    /\ gate_downloaded = FALSE
    /\ dl_ctx = "none" /\ retries = 0 /\ current_delay = delay
    /\ sleeps = <<>> /\ calls = 0 /\ outcomes = <<>>
    /\ local_tmp = FALSE /\ dbfs = {}

\* The call download_excel_file(...) enters the wrapper: retries = 0,
\* current_delay = delay.
EnterDownload(ctx) ==
    /\ dl_ctx' = ctx /\ retries' = 0 /\ current_delay' = delay
    /\ sleeps' = <<>> /\ calls' = 0 /\ outcomes' = <<>>
    /\ pc' = "download"

\* Lines 212-218: the run reads config["latest_quarter"] and calls
\* search_for_energy_trend.
StartRun ==
    /\ pc \in {"idle", "done"} /\ run < MaxRuns
    /\ run' = run + 1
    /\ latest_quarter' = config_latest_quarter
    /\ should_download' = FALSE /\ exc' = "none" /\ durable_calls' = 0
    /\ gate_downloaded' = FALSE
    /\ dl_ctx' = "none" /\ retries' = 0 /\ current_delay' = delay
    /\ sleeps' = <<>> /\ calls' = 0 /\ outcomes' = <<>>
    /\ pc' = "fetch_page"
    /\ UNCHANGED <<parseVars, reshapeVars, envVars, fileVars>>

\* Lines 153-186 and 193-201: fetch the page, look for the phrase and the
\* first spreadsheet link, and call the gate, whose first statement is the
\* scratch download. A fetch that raises is caught at line 200.
FetchPage ==
    /\ pc = "fetch_page"
    /\ IF page.fetch = "ok" /\ page.status = 200 /\ page.matches /\ page.link
       THEN EnterDownload("gate")
       ELSE /\ pc' = "done"
            /\ UNCHANGED retryVars
    /\ UNCHANGED <<parseVars, reshapeVars, envVars, run, latest_quarter, should_download,
                   exc, durable_calls, gate_downloaded, fileVars>>

\* while retries < max_retries
RetryAgain_once_more(r) == r <= max_retries

RetryAgain(r) == r < max_retries

\* Where an exception leaving download_excel_file is caught: line 145 in
\* the gate, line 200 in search_for_energy_trend.
Handler(ctx) == IF ctx = "gate" THEN "gate_except" ELSE "search_except"

\* f'{dbfs_save_path}/{file_name}': the gate passes /tmp/<file_name>, the
\* run passes excel_save_path.
DbfsPath(ctx) == IF ctx = "gate" THEN "scratch" ELSE "durable"

\* Lines 31-38 with lines 52-82: one turn of the wrapper's loop, calling
\* download_excel_file once.
DownloadAttempt ==
    /\ pc = "download" /\ RetryAgain(retries)
    /\ \E o \in Outcomes :
        /\ calls' = calls + 1
        /\ outcomes' = Append(outcomes, o)
        /\ local_tmp' = (local_tmp \/ o \in {"ok", "copy_error"})
        /\ dbfs' = IF o = "ok" THEN dbfs \cup {DbfsPath(dl_ctx)} ELSE dbfs
        /\ IF o = "ok"
           THEN /\ pc' = IF dl_ctx = "gate" THEN "gate_inspect" ELSE "done"
                /\ gate_downloaded' = (gate_downloaded \/ dl_ctx = "gate")
                /\ UNCHANGED <<retries, sleeps, current_delay, exc>>
           ELSE IF IsRequestException(o)
           THEN /\ retries' = retries + 1
                /\ sleeps' = Append(sleeps, current_delay)
                /\ current_delay' = current_delay * backoff
                /\ UNCHANGED <<pc, exc, gate_downloaded>>
           ELSE /\ exc' = "OSError"
                /\ pc' = Handler(dl_ctx)
                /\ UNCHANGED <<retries, sleeps, current_delay,
                               gate_downloaded>>
    /\ UNCHANGED <<parseVars, reshapeVars, envVars, run, latest_quarter, should_download,
                   durable_calls, dl_ctx>>

\* Lines 39-40: the loop ends and the wrapper raises
\* Exception('Failed to complete after 3 retries.').
DownloadExhausted ==
    /\ pc = "download" /\ ~RetryAgain(retries)
    /\ exc' = "Failed to complete"
    /\ pc' = Handler(dl_ctx)
    /\ UNCHANGED <<parseVars, reshapeVars, envVars, run, latest_quarter, should_download,
                   durable_calls, gate_downloaded, retryVars, fileVars>>

\* A handler that reports a newer quarter on error.
GateOnError_open(lq) == [is_newer |-> TRUE, latest |-> lq]

\* Lines 145-147: except Exception: return False, latest_quarter.
GateOnError(lq) == [is_newer |-> FALSE, latest |-> lq]

\* Lines 145-147 after the scratch download raised: the exception is caught
\* and the gate returns.
GateExcept ==
    /\ pc = "gate_except"
    /\ exc' = "none"
    /\ should_download' = GateOnError(latest_quarter).is_newer
    /\ latest_quarter' = GateOnError(latest_quarter).latest
    /\ pc' = "gate_returned"
    /\ UNCHANGED <<parseVars, reshapeVars, envVars, run, durable_calls, gate_downloaded,
                   retryVars, fileVars>>

\* Lines 116-147 after the scratch download returned: inspect the sheet,
\* remove /tmp/<file_name> on the two regular returns, and return; an
\* exception raised on the way is caught at line 145, where nothing is
\* removed.
GateInspect ==
    /\ pc = "gate_inspect"
    /\ LET r == InspectSheet(sheet, latest_quarter) IN
       IF r.raised
       THEN /\ should_download' = GateOnError(latest_quarter).is_newer
            /\ latest_quarter' = GateOnError(latest_quarter).latest
            /\ UNCHANGED local_tmp
       ELSE /\ local_tmp' = FALSE
            /\ should_download' = r.is_newer
            /\ latest_quarter' = r.latest
    /\ pc' = "gate_returned"
    /\ UNCHANGED <<parseVars, reshapeVars, envVars, run, exc, durable_calls,
                   gate_downloaded, retryVars, dbfs>>

\* A run that downloads whatever the gate reported.
AfterGate_always ==
    /\ pc = "gate_returned"
    /\ durable_calls' = durable_calls + 1
    /\ EnterDownload("final")
    /\ UNCHANGED <<parseVars, reshapeVars, envVars, run, latest_quarter, should_download,
                   exc, gate_downloaded, fileVars>>

\* Lines 186-192: the gate's result is unpacked into should_download and the
\* local latest_quarter; if should_download, download_excel_file is called
\* with excel_save_path. config is not written.
AfterGate ==
    /\ pc = "gate_returned"
    /\ IF should_download
       THEN /\ durable_calls' = durable_calls + 1
            /\ EnterDownload("final")
       ELSE /\ pc' = "done"
            /\ UNCHANGED <<durable_calls, retryVars>>
    /\ UNCHANGED <<parseVars, reshapeVars, envVars, run, latest_quarter, should_download,
                   exc, gate_downloaded, fileVars>>

\* Lines 200-201: except Exception: log; search_for_energy_trend returns.
SearchExcept ==
    /\ pc = "search_except"
    /\ exc' = "none"
    /\ pc' = "done"
    /\ UNCHANGED <<parseVars, reshapeVars, envVars, run, latest_quarter, should_download,
                   durable_calls, gate_downloaded, retryVars, fileVars>>

Next ==
    \/ StartRun
    \/ FetchPage
    \/ DownloadAttempt
    \/ DownloadExhausted
    \/ GateExcept
    \/ GateInspect
    \/ AfterGate
    \/ SearchExcept

Spec == Init /\ [][Next]_vars

\* ------------------------------------------------ claims: acquisition

\* The quarter a header cell or a last-known label of the model stands
\* for; <<>> for text that is no quarter label.
QuarterOf(c) ==
    CASE c = L1984q1 -> <<1984, 1>>
      [] c = L2023q1 -> <<2023, 1>>
      [] c = L2024q2 -> <<2024, 2>>
      [] c = SP \o L2024q2 -> <<2024, 2>>
      [] c = L2024q2Note -> <<2024, 2>>
      [] c = L2024q3Newline -> <<2024, 3>>
      [] OTHER -> <<>>

\* The header text as pandas shows it after the clean-up of line 117.
ShownAs(c) ==
    IF c = L2024q3Newline THEN Label(Y2024, <<"3">>, <<"r", "d">>) ELSE c

\* (Y1, Q1) > (Y2, Q2) iff Y1 > Y2, or Y1 = Y2 and Q1 > Q2.
QuarterAfter(a, b) == a[1] > b[1] \/ (a[1] = b[1] /\ a[2] > b[2])

QuarterCells == {i \in DOMAIN sheet.columns : QuarterOf(sheet.columns[i]) # <<>>}

\* The cells that hold the newest quarter of the file.
NewestCells ==
    {i \in QuarterCells :
        \A j \in QuarterCells :
            ~QuarterAfter(QuarterOf(sheet.columns[j]), QuarterOf(sheet.columns[i]))}

GateReadable ==
    /\ gate_downloaded /\ sheet.has_sheet /\ QuarterCells # {}
    /\ QuarterOf(config_latest_quarter) # <<>>

\* C1: with the sheet downloaded, at least one quarter column and a
\* well-formed last_known, the gate returns (True, newest) exactly when the
\* newest quarter of the file is strictly after last_known, and
\* (False, last_known) otherwise.
C1_GateReportsNewerIffStrictlyAfter ==
    (pc = "gate_returned" /\ GateReadable) =>
        \A i \in NewestCells :
            IF QuarterAfter(QuarterOf(sheet.columns[i]),
                            QuarterOf(config_latest_quarter))
            THEN /\ should_download
                 /\ \E k \in NewestCells :
                        latest_quarter = ShownAs(sheet.columns[k])
            ELSE /\ ~should_download
                 /\ latest_quarter = config_latest_quarter

\* The gate has returned for a file whose newest quarter equals last_known.
C1_Witness ==
    /\ pc = "gate_returned" /\ GateReadable
    /\ \E i \in NewestCells :
           QuarterOf(sheet.columns[i]) = QuarterOf(config_latest_quarter)
    /\ ~should_download

GateStepFailed ==
    \/ ~gate_downloaded
    \/ ~sheet.has_sheet
    \/ QuarterCells = {}
    \/ QuarterOf(config_latest_quarter) = <<>>

\* C2: whenever a step of the gate fails (download, missing sheet, no
\* quarter column, malformed last_known), the exception is caught in the
\* gate and the gate returns (False, last_known).
C2_GateFailsClosed ==
    /\ (pc = "gate_returned" /\ GateStepFailed) =>
           /\ ~should_download
           /\ latest_quarter = config_latest_quarter
           /\ exc = "none"
    /\ pc = "search_except" => dl_ctx = "final"

\* The gate has returned after reading a sheet against a malformed
\* last_known.
C2_Witness ==
    /\ pc = "gate_returned" /\ gate_downloaded /\ sheet.has_sheet
    /\ QuarterCells # {} /\ config_latest_quarter = InvalidQuarter

\* C3: whenever the gate returns after the scratch copy was downloaded,
\* /tmp/<file_name> has been deleted.
C3_ScratchDeletedOnEveryPath ==
    (pc = "gate_returned" /\ gate_downloaded) => ~local_tmp

PageFound ==
    page.fetch = "ok" /\ page.status = 200 /\ page.matches /\ page.link

RECURSIVE Pow(_, _)
Pow(b, n) == IF n = 0 THEN 1 ELSE b * Pow(b, n - 1)

WrapperRaised == pc \in {"gate_except", "search_except"}

\* C5: the wrapper never calls the operation more than max_retries times;
\* the waits are delay, delay*backoff, delay*backoff^2; with a connection
\* failure on every attempt it calls exactly max_retries times and raises
\* the terminal error; the first success ends the call.
C5_RetryExactlyMaxRetries ==
    /\ calls <= max_retries
    /\ \A i \in DOMAIN sleeps : sleeps[i] = delay * Pow(backoff, i - 1)
    /\ (WrapperRaised /\ \A k \in DOMAIN outcomes :
                             outcomes[k] = "connection_error") =>
           /\ calls = max_retries
           /\ Len(sleeps) = max_retries
           /\ exc = "Failed to complete"
    /\ \A k \in DOMAIN outcomes :
           outcomes[k] = "ok" =>
               k = Len(outcomes) /\ pc # "download" /\ exc = "none"

\* The wrapper has raised after three connection failures.
C5_Witness ==
    /\ WrapperRaised /\ exc = "Failed to complete"
    /\ outcomes = <<"connection_error", "connection_error",
                    "connection_error">>

\* C6 (as written): an HTTP error status is terminal: one request, no
\* sleep, no retry.
C6_HttpErrorNotRetried ==
    (Len(outcomes) > 0 /\ outcomes[1] = "http_error") =>
        /\ Requests(outcomes) = 1 /\ sleeps = <<>> /\ pc # "download"

RetriedOutcomes ==
    {k \in DOMAIN outcomes : outcomes[k] \in {"connection_error", "http_error"}}

\* C6 (amended): an HTTP error status is retried like a network failure:
\* each one is followed by a sleep, and with an error status on every
\* attempt download_excel_file makes max_retries requests and then raises
\* the terminal error; only a failure that is no RequestException (writing
\* or copying the file) surfaces at once.
C6_HttpErrorRetried ==
    /\ Len(sleeps) = Cardinality(RetriedOutcomes)
    /\ (WrapperRaised /\ \A k \in DOMAIN outcomes :
                             outcomes[k] = "http_error") =>
           /\ Requests(outcomes) = max_retries
           /\ exc = "Failed to complete"
    /\ exc = "OSError" =>
           outcomes[Len(outcomes)] \in {"write_error", "copy_error"}

\* The wrapper has raised after three HTTP error statuses.
C6_Witness ==
    /\ WrapperRaised /\ exc = "Failed to complete"
    /\ outcomes = <<"http_error", "http_error", "http_error">>

\* C7: at the end of a run in which the gate detected a newer quarter, the
\* persisted last-known quarter is the newest quarter.
C7_GateStateOverwritten ==
    (pc = "done" /\ should_download) =>
        config_latest_quarter = latest_quarter

\* -------------------------------------- specification: transformation

\* Largest number of leading rows of the sheet that vary.
MaxRows == 3

\* file_name, and datetime.now().strftime('%d/%m/%Y')
FileNameOfRun == <<"E", "T", "_", "3", ".", "1", ".", "x", "l", "s", "x">>
DateOfRun == <<"0", "4", "/", "1", "1", "/", "2", "0", "2", "6">>

CellTexts == {CellIndigenousNote, S_CrudeOil, CellNGLsNote, S_Feedstocks}
CellValues == {<<1, 2>>, <<4, 8>>}
LeadingRows == {<<t>> \o v : t \in CellTexts, v \in CellValues}

\* The rows that follow the leading rows in a sheet of ten rows.
RestOfSheet ==
    << <<S_Feedstocks, 1, 1>>, <<S_Imports, 1, 1>>, <<S_CrudeOil, 1, 1>>,
       <<S_Feedstocks, 1, 1>>, <<S_Exports, 1, 1>>, <<S_CrudeOil, 1, 1>>,
       <<S_NGLs, 1, 1>> >>

\* A header cell that is no quarter label.
Annual2024 == Y2024 \o <<" ", "a", "n", "n", "u", "a", "l">>

\* The sheets of the model: a short sheet with plain quarter headers, a long
\* one whose headers carry an annotation and a line break, and a short one
\* with a column that is no quarter.
SheetShapes ==
    {[header |-> <<L2023q1, L2024q2>>, rest |-> <<>>],
     [header |-> <<L2024q2Note, L2024q3Newline>>, rest |-> RestOfSheet],
     [header |-> <<L2023q1, Annual2024>>, rest |-> <<>>]}

InitReshape ==
    /\ ParseIdle
    /\ AcqIdle
    /\ t_pc = "load"
    /\ \E shape \in SheetShapes :
       \E lead \in UNION {[1..n -> LeadingRows] : n \in 0..MaxRows} :
           sheet_df = DataFrame(<<Column1>> \o shape.header,
                                lead \o shape.rest)
    /\ spark_df = NoFrame /\ final_df = NoFrame /\ df_renamed = NoFrame
    /\ finalDF = NoFrame /\ csv_file = NoFrame

\* Lines 235-269: read the sheet into spark_df.
LoadCell ==
    /\ t_pc = "load"
    /\ spark_df' = LoadSparkDf(sheet_df)
    /\ t_pc' = "aggregate"
    /\ UNCHANGED <<parseVars, acqVars, sheet_df, final_df, df_renamed,
                   finalDF, csv_file>>

\* Lines 274-313: spark_df gets Category and Sub_Category; final_df is the
\* aggregated and filtered table.
AggregateCell ==
    /\ t_pc = "aggregate"
    /\ spark_df' = DeriveCategories(spark_df)
    /\ final_df' = Aggregate(DeriveCategories(spark_df))
    /\ t_pc' = "unpivot"
    /\ UNCHANGED <<parseVars, acqVars, sheet_df, df_renamed, finalDF,
                   csv_file>>

\* Lines 368-390: rename the columns of final_df and unpivot them; the cell
\* fails if stack() cannot be built.
UnpivotCell ==
    /\ t_pc = "unpivot"
    /\ df_renamed' = rename_columns(final_df)
    /\ IF CanUnpivot(rename_columns(final_df))
       THEN /\ finalDF' = Unpivot(rename_columns(final_df), FileNameOfRun,
                                  DateOfRun)
            /\ t_pc' = "write"
       ELSE /\ t_pc' = "failed"
            /\ UNCHANGED finalDF
    /\ UNCHANGED <<parseVars, acqVars, sheet_df, spark_df, final_df,
                   csv_file>>

\* Lines 396-422: spark_df.coalesce(1).write...csv(...) with header, and the
\* part file moved to csv_save_path.
WriteCell ==
    /\ t_pc = "write"
    /\ csv_file' = spark_df
    /\ t_pc' = "written"
    /\ UNCHANGED <<parseVars, acqVars, sheet_df, spark_df, final_df,
                   df_renamed, finalDF>>

NextReshape ==
    \/ LoadCell
    \/ AggregateCell
    \/ UnpivotCell
    \/ WriteCell

SpecReshape == InitReshape /\ [][NextReshape]_vars

\* ---------------------------------------------- claims: transformation

LongColumns ==
    <<S_Category, S_Sub_Category, S_Quarter, S_Quantity, S_FileName,
      S_ProcessedDate>>

\* C8: the delimited output file holds the long table: columns Category,
\* Sub_Category, Quarter, Quantity, FileName, ProcessedDate and one row per
\* (row of the aggregated table, quarter column) pair.
C8_CsvHoldsLongTable ==
    t_pc = "written" =>
        /\ csv_file.columns = LongColumns
        /\ csv_file.rows = finalDF.rows
        /\ Len(csv_file.rows) =
               (Len(sheet_df.columns) - 1) * Len(final_df.rows)

CategoryAt(df, i) == df.rows[i][ColIndex(df, S_Category)]
SubCategoryAt(df, i) == df.rows[i][ColIndex(df, S_Sub_Category)]

Superseded ==
    {IndigenousProduction \o <<"_">> \o S_CrudeOil,
     IndigenousProduction \o <<"_">> \o S_NGLs}
SyntheticLabel == IndigenousProduction \o <<"_">> \o S_CrudeOilAndNGLs

\* The rows of spark_df with Category 'Indigenous production' whose
\* Sub_Category is neither 'Indigenous production' nor
\* 'Indigenous production_Feedstocks'.
SummedGroup ==
    {i \in DOMAIN spark_df.rows :
        /\ CategoryAt(spark_df, i) = IndigenousProduction
        /\ SubCategoryAt(spark_df, i) \notin
               {IndigenousProduction,
                IndigenousProduction \o <<"_">> \o S_Feedstocks}}

\* The rows of spark_df that the final filter keeps, in order.
CarriedOver ==
    SelectSeq(spark_df.rows,
              LAMBDA r : r[ColIndex(spark_df, S_Sub_Category)] \notin Superseded)

RECURSIVE SumOver(_, _)
SumOver(I, j) ==
    IF I = {} THEN 0
    ELSE LET i == CHOOSE x \in I : TRUE
         IN  spark_df.rows[i][j] + SumOver(I \ {i}, j)

QuarterPositions ==
    {j \in DOMAIN spark_df.columns :
        spark_df.columns[j] \notin {S_Category, S_Sub_Category, S_id}}

SyntheticRows ==
    {i \in DOMAIN final_df.rows : SubCategoryAt(final_df, i) = SyntheticLabel}

Aggregated == t_pc \in {"unpivot", "write", "written", "failed"}

NoSupersededRow ==
    \A i \in DOMAIN final_df.rows : SubCategoryAt(final_df, i) \notin Superseded

\* The last row of final_df is the synthetic row and the rows before it are
\* the rows carried over.
OneSyntheticRowAppended ==
    /\ Len(final_df.rows) = Len(CarriedOver) + 1
    /\ SubSeq(final_df.rows, 1, Len(CarriedOver)) = CarriedOver
    /\ SyntheticRows = {Len(final_df.rows)}
    /\ CategoryAt(final_df, Len(final_df.rows)) = IndigenousProduction
    /\ \A j \in QuarterPositions :
           final_df.rows[Len(final_df.rows)][j] = SumOver(SummedGroup, j)

\* C10 (as written): for every input table the final wide table has no
\* 'Indigenous production_Crude oil' or '_NGLs' row and exactly one
\* synthetic 'Indigenous production_Crude Oil & NGLs' row holding the sums
\* of the group; all other rows are carried over.
C10_AlwaysOneSyntheticRow ==
    Aggregated => (final_df.columns = spark_df.columns
                   /\ NoSupersededRow /\ OneSyntheticRowAppended)

\* C10 (amended): the final wide table has no 'Indigenous production_Crude
\* oil' or '_NGLs' row and carries all other rows over unchanged; if the
\* group of summed rows is not empty, exactly one synthetic row is appended,
\* holding in each quarter column the sum over the group; if the group is
\* empty, no synthetic row is appended.
C10_SyntheticRowIffGroup ==
    Aggregated =>
        /\ final_df.columns = spark_df.columns
        /\ NoSupersededRow
        /\ IF SummedGroup # {} THEN OneSyntheticRowAppended
           ELSE final_df.rows = CarriedOver /\ SyntheticRows = {}

\* The table has been aggregated over a group of two rows next to a
\* Feedstocks row of 'Indigenous production' that is left out of the sum.
C10_Witness ==
    /\ Aggregated
    /\ Cardinality(SummedGroup) = 2
    /\ \E i \in DOMAIN spark_df.rows :
           /\ CategoryAt(spark_df, i) = IndigenousProduction
           /\ SubCategoryAt(spark_df, i) =
                  IndigenousProduction \o <<"_">> \o S_Feedstocks
    /\ SyntheticRows # {}

\* The YYYYQQ token of a header cell of the model; <<>> for a cell that is
\* no quarter label.
TokenOf(h) ==
    CASE h = L2023q1 -> <<"2", "0", "2", "3", "0", "1">>
      [] h = L2024q2 -> <<"2", "0", "2", "4", "0", "2">>
      [] h = L2024q2Note -> <<"2", "0", "2", "4", "0", "2">>
      [] h = L2024q3Newline -> <<"2", "0", "2", "4", "0", "3">>
      [] OTHER -> <<>>

\* The header cells of the sheet after Column1; cell k is column k + 1 of
\* the wide table.
SheetHeader == SubSeq(sheet_df.columns, 2, Len(sheet_df.columns))
QuarterCellsOfSheet == {k \in DOMAIN SheetHeader : TokenOf(SheetHeader[k]) # <<>>}
QuarterCount == Cardinality(QuarterCellsOfSheet)
RankOf(k) == Cardinality({q \in QuarterCellsOfSheet : q <= k})

Unpivoted == t_pc \in {"write", "written"}

\* C11: the unpivot gives exactly one long row for each (row of the final
\* wide table, quarter column) pair, with that row's Category and
\* Sub_Category, Quarter the column's YYYYQQ name and Quantity the cell; the
\* row count is (rows of the final table) times (quarter columns), and the
\* other columns (the row id, a column that is no quarter) give no rows.
C11_OneLongRowPerRowAndQuarter ==
    Unpivoted =>
        /\ Len(finalDF.rows) = Len(final_df.rows) * QuarterCount
        /\ \A i \in DOMAIN final_df.rows, k \in QuarterCellsOfSheet :
               finalDF.rows[(i - 1) * QuarterCount + RankOf(k)] =
                   <<CategoryAt(final_df, i), SubCategoryAt(final_df, i),
                     TokenOf(SheetHeader[k]), final_df.rows[i][k + 1],
                     FileNameOfRun, DateOfRun>>

\* A table of at least two rows with a quarter column and a column that is
\* no quarter has been unpivoted.
C11_Witness ==
    /\ Unpivoted
    /\ Len(final_df.rows) >= 2
    /\ QuarterCount = 1 /\ Len(SheetHeader) = 2
    /\ Len(finalDF.rows) >= 2

\* ------------------------------------- specification: rename_columns

RenameYears ==
    {[s |-> Y2024, digits |-> TRUE], [s |-> <<"1", "9", "9", "9">>, digits |-> TRUE],
     [s |-> <<"1", "2">>, digits |-> TRUE],
     [s |-> <<"F", "Y", "2", "4">>, digits |-> FALSE]}
RenameSeps == {SP, <<"_">>, <<"\n">>, <<"_", "\n">>, <<" ", " ">>}
RenameOrdinals ==
    {[s |-> <<"1", "s", "t">>, qq |-> <<"0", "1">>, exact |-> TRUE],
     [s |-> <<"2", "n", "d">>, qq |-> <<"0", "2">>, exact |-> TRUE],
     [s |-> <<"3", "r", "d">>, qq |-> <<"0", "3">>, exact |-> TRUE],
     [s |-> <<"4", "t", "h">>, qq |-> <<"0", "4">>, exact |-> TRUE],
     [s |-> <<"3", "n", "d">>, qq |-> <<"0", "3">>, exact |-> FALSE],
     [s |-> <<"5", "t", "h">>, qq |-> <<>>, exact |-> FALSE],
     [s |-> <<"1", "S", "T">>, qq |-> <<"0", "1">>, exact |-> FALSE],
     [s |-> <<"1", "1", "s", "t">>, qq |-> <<"0", "1">>, exact |-> FALSE]}
RenameRests ==
    {[s |-> <<" ", "q", "u", "a", "r", "t", "e", "r">>, exact |-> TRUE],
     [s |-> <<"_", "q", "u", "a", "r", "t", "e", "r">>, exact |-> TRUE],
     [s |-> <<" ", "h", "a", "l", "f">>, exact |-> FALSE],
     [s |-> <<>>, exact |-> FALSE],
     [s |-> <<" ", "q", "u", "a", "r", "t", "e", "r", " ", "[", "n", "o", "t", "e", " ", "3", "]">>, exact |-> FALSE],
     [s |-> <<"_", "q", "u", "a", "r", "t", "e", "r", "_", "[", "n", "o", "t", "e", "_", "3", "]">>, exact |-> FALSE]}
\* The column next to the column under test: a label of the shape.
RenameOthers ==
    {[s |-> <<"2", "0", "2", "4", " ", "1", "s", "t", " ", "q", "u", "a", "r", "t", "e", "r">>,
      year |-> <<"2", "0", "2", "4">>, qq |-> <<"0", "1">>],
     [s |-> <<"2", "0", "2", "4", "_", "1", "s", "t", "_", "q", "u", "a", "r", "t", "e", "r">>,
      year |-> <<"2", "0", "2", "4">>, qq |-> <<"0", "1">>],
     [s |-> <<"1", "9", "9", "9", " ", "3", "r", "d", " ", "q", "u", "a", "r", "t", "e", "r">>,
      year |-> <<"1", "9", "9", "9">>, qq |-> <<"0", "3">>],
     [s |-> <<"2", "0", "2", "4", "_", "2", "n", "d", "_", "q", "u", "a", "r", "t", "e", "r">>,
      year |-> <<"2", "0", "2", "4">>, qq |-> <<"0", "2">>]}

RenameName(p) == p.year.s \o p.sep \o p.ord.s \o p.rest.s

\* final_df as rename_columns receives it: the column under test and a
\* second quarter column between Category, id and Sub_Category.
InitRename ==
    /\ q_parts \in [year : RenameYears, sep : RenameSeps, ord : RenameOrdinals,
                    rest : RenameRests, other : RenameOthers]
    /\ q_str = RenameName(q_parts)
    /\ q_str # q_parts.other.s
    /\ q_out = Pending
    /\ AcqIdle
    /\ t_pc = "rename"
    /\ final_df = DataFrame(<<S_Category, q_str, q_parts.other.s, S_id,
                              S_Sub_Category>>, <<>>)
    /\ sheet_df = NoFrame /\ spark_df = NoFrame /\ df_renamed = NoFrame
    /\ finalDF = NoFrame /\ csv_file = NoFrame

\* Line 370: df_renamed = rename_columns(final_df).
RenameCall ==
    /\ t_pc = "rename"
    /\ df_renamed' = rename_columns(final_df)
    /\ t_pc' = "renamed"
    /\ UNCHANGED <<parseVars, acqVars, sheet_df, spark_df, final_df, finalDF,
                   csv_file>>

NextRename == RenameCall

SpecRename == InitRename /\ [][NextRename]_vars

\* ------------------------------------------- claims: rename_columns

\* The name is '<year> <ordinal> quarter': a year of four digits, spaces or
\* underscores as separators, an ordinal 1st..4th.
OfQuarterShape(p) ==
    /\ p.year.digits /\ Len(p.year.s) = 4
    /\ p.sep \in {SP, <<"_">>}
    /\ p.ord.exact /\ p.rest.exact

\* What rename_columns looks at: a first part of digits only, one separator
\* (space, underscore, newline, or underscore and newline), and a second
\* part that contains 1st, 2nd, 3rd, 3nd or 4th in either case.
Recognised(p) ==
    /\ p.year.digits
    /\ p.sep # <<" ", " ">>
    /\ p.ord.qq # <<>>

FrameUnchanged ==
    /\ Len(df_renamed.columns) = 5
    /\ df_renamed.columns[1] = S_Category
    /\ df_renamed.columns[4] = S_id
    /\ df_renamed.columns[5] = S_Sub_Category
    /\ df_renamed.columns[3] = q_parts.other.year \o q_parts.other.qq

\* C12 (as written): every column of the shape '<year> <ordinal> quarter'
\* is renamed to YYYYQQ, every column not of that shape is left unchanged,
\* and distinct quarter labels get distinct tokens.
C12_OnlyShapeRenamed ==
    t_pc = "renamed" =>
        /\ FrameUnchanged
        /\ OfQuarterShape(q_parts) =>
               df_renamed.columns[2] = q_parts.year.s \o q_parts.ord.qq
        /\ ~OfQuarterShape(q_parts) => df_renamed.columns[2] = q_str
        /\ OfQuarterShape(q_parts) =>
               df_renamed.columns[2] # df_renamed.columns[3]

\* C12 (amended): a column is renamed exactly when its first part is all
\* digits and its second part, after one separator, contains 1st, 2nd, 3rd,
\* 3nd or 4th; its new name is the first part followed by 01..04. Every
\* name of the shape '<year> <ordinal> quarter' is so renamed to YYYYQQ,
\* every column that is not recognised is left unchanged, and two labels of
\* the shape get the same token exactly when they name the same year and
\* ordinal.
C12_RecognisedRenamed ==
    t_pc = "renamed" =>
        /\ FrameUnchanged
        /\ Recognised(q_parts) =>
               df_renamed.columns[2] = q_parts.year.s \o q_parts.ord.qq
        /\ ~Recognised(q_parts) => df_renamed.columns[2] = q_str
        /\ OfQuarterShape(q_parts) =>
               /\ Recognised(q_parts)
               /\ Len(df_renamed.columns[2]) = 6
               /\ (df_renamed.columns[2] = df_renamed.columns[3]) <=>
                      (/\ q_parts.year.s = q_parts.other.year
                       /\ q_parts.ord.qq = q_parts.other.qq)

\* An annotated header without the shape has been renamed to the token of
\* the quarter column next to it.
C12_Witness ==
    /\ t_pc = "renamed"
    /\ ~OfQuarterShape(q_parts) /\ ~q_parts.rest.exact
    /\ df_renamed.columns[2] = df_renamed.columns[3]

====
